---- MODULE Spec2Model ----
(***************************************************************************)
(* Scrape scheduler, shared state and event bus of scrape_auction.py.      *)
(*                                                                         *)
(* Every `with <lock>:` block of the source is one atomic step: each       *)
(* shared variable is only ever touched under its own lock and no block    *)
(* takes a second lock, so the blocks are the units of interleaving.       *)
(* ControlSpec models filters_lock explicitly, because its block in        *)
(* set_filters holds more than one statement, and LockSpec models all      *)
(* seven locks explicitly.                                                 *)
(*                                                                         *)
(* The specifications of the module:                                       *)
(*   Spec         the scheduler loop of main() against the /refresh and    *)
(*                /status request handlers (refresh_paused, refresh_now,   *)
(*                status);                                                 *)
(*   LogSpec      the log ring buffer of add_log (log_entries);            *)
(*   BusSpec      subscribe / unsubscribe / publish_event                  *)
(*                (event_subscribers and the subscriber queues);           *)
(*   StreamSpec   one /stream connection, frame by frame, against threads  *)
(*                that log and publish;                                    *)
(*   FilterSpec   apply_filters_to_items on bounded inputs;                *)
(*   TotalSpec    the total of a cycle: parse, adjust, format, publish;    *)
(*   ControlSpec  the control requests of two handlers, statement by       *)
(*                statement;                                               *)
(*   LockSpec     the lock operations of every routine, with explicit      *)
(*                holders, for the scheduler and two handlers;             *)
(*   UpdateSpec   concurrent update_status calls and the status events     *)
(*                they send to a stream.                                   *)
(* add_log and publish_event read and write none of the variables of       *)
(* Spec, and the scheduler reads neither the log nor a queue, so the       *)
(* parts do not interfere and are explored separately.                     *)
(***************************************************************************)
EXTENDS Integers, Sequences, FiniteSets, TLC

\* ------------------------------------------------------------------ bounds
\* REFRESH_INTERVAL is 10 in the source (line 18); the countdown is scaled
\* down, every iteration of the loop behaves alike.
REFRESH_INTERVAL == 3
\* mutating /refresh requests issued in one behaviour
MaxRequests == 3
\* add_log calls in one behaviour of LogSpec
MaxAppends == 203
\* publish_event calls in one behaviour of BusSpec
MaxEvents == 3
\* the channel capacity C10 speaks of; the source sets none
ChannelBound == 2
\* add_log calls, and update_status calls, in one behaviour of StreamSpec
MaxStreamEvents == 2
\* frames one stream yields in one behaviour of StreamSpec
MaxFrames == 4
\* length of the item list, and of the keyword list, in FilterSpec
MaxItems == 2
MaxTerms == 2
\* set_adjustment calls in one behaviour of TotalSpec
MaxAdjustments == 2
\* requests issued in one behaviour of ControlSpec
MaxOps == 3
\* /refresh requests issued in one behaviour of UpdateSpec
MaxUpdates == 3

\* ------------------------------------------------------ program constants
MAX_LOGS == 200
\* Queue() at line 79 is Queue(maxsize=0): no capacity limit
QueueMaxsize == 0

\* request-handling threads of the web server
Handlers == {"h1", "h2"}
\* threads that call add_log: the scheduler and the request handlers
LogThreads == {"main", "h1", "h2"}
\* threads that call publish_event
Publishers == {"main", "h1"}
\* the queues of the /stream connections opened in one behaviour
Subs == {"q1", "q2"}
\* the connection StreamSpec follows frame by frame
Streams == {"q1"}

\* Python's None in status["next_refresh_in"]
None == -1

VARIABLES
    \* shared state of the scheduler (source lines 24-42)
    refresh_paused,     \* refresh_paused, under refresh_lock
    refresh_now,        \* refresh_now, under refresh_now_lock
    status,             \* status dict, under status_lock
    \* main(): the scheduler thread
    pc,                 \* its position in the loop
    i,                  \* loop variable of the countdown
    paused,             \* local `paused`
    do_refresh_now,     \* local `do_refresh_now`
    items_ok,           \* whether fetch_auction_items met no page failure
    total_raised,       \* kind of text get_total_raised returned
    \* request handlers
    hpc, hop, hret, hflag,
    \* history of the run, read only by the properties
    hist,
    \* the log buffer (lines 30-31) and the threads inside add_log
    log_entries, lpc, nAppended,
    \* the event bus (lines 38-39)
    event_subscribers,  \* set of registered queues
    queue,              \* content of each queue
    sstate,             \* each stream: "new", "open" or "closed"
    ppc, pev, subscribers,  \* publish_event: position, payload, local list
    bus,                \* history of the bus, read only by the properties
    \* stream_events (lines 400-418): one generator per connection
    spc,                \* position of each generator
    logs_copy,          \* its local `logs_copy`
    out,                \* the frames it has yielded so far
    \* apply_filters_to_items (lines 170-190)
    filters,            \* the global keyword list, under filters_lock
    items,              \* its argument
    filtered_items, filtered_out,   \* its two results
    fpc,                \* "call" before the call, "done" after it
    \* the total of a cycle (lines 268-296)
    manual_adjustment,  \* the global, in cents, under manual_lock
    total_text,         \* what get_total_raised returned
    adj,                \* local `adj`
    total_raised_display,
    artifact_total,     \* 'total_raised' in auction_items.json
    last_total,         \* status["last_total"]
    tpc, nAdj,          \* position in the cycle; set_adjustment calls so far
    \* the control requests (lines 310-397), statement by statement
    cpc, cop, cret,     \* per handler: position, request, outcome
    parsed_filters,     \* local `parsed_filters` of set_filters
    snap,               \* the snapshot get_status_snapshot is building
    filters_lock,       \* holder of filters_lock, or "free"
    published,          \* number of publish_event calls
    nOps,               \* requests issued so far
    acct,               \* per handler: what the current request has done
    installed,          \* the keyword list last installed completely
    fobs,               \* per reader: the keyword list it read last
    \* the locks (lines 25-42) and the statements each thread has ahead
    holder,             \* per lock: the thread inside its block, or "free"
    todo,               \* per thread: the rest of the routine it runs
    mloc, li,           \* main(): part of the loop, countdown iterations left
    \* concurrent update_status calls (lines 69-75) and the events they send
    upc, uop,           \* per handler: position, requested /refresh state
    usnap,              \* local `snapshot` of update_status
    usubs,              \* local `subscribers` of publish_event
    nSnap, nUpd         \* snapshots taken so far; requests issued so far

schedVars == <<pc, i, paused, do_refresh_now, items_ok, total_raised>>
sharedVars == <<refresh_paused, refresh_now, status>>
handlerVars == <<hpc, hop, hret, hflag>>
ctlVars == <<sharedVars, schedVars, handlerVars, hist>>

logVars == <<log_entries, lpc, nAppended>>
busVars == <<event_subscribers, queue, sstate, ppc, pev, subscribers, bus>>

streamVars == <<spc, logs_copy, out>>

\* variables of the parts that the scheduler, add_log and the bus leave alone
filterVars == <<filters, items, filtered_items, filtered_out, fpc>>
totalVars == <<manual_adjustment, total_text, adj, total_raised_display,
               artifact_total, last_total, tpc, nAdj>>
controlVars == <<cpc, cop, cret, parsed_filters, snap, filters_lock,
                 published, nOps, acct, installed, fobs>>
lockVars == <<holder, todo, mloc, li>>
updateVars == <<upc, uop, usnap, usubs, nSnap, nUpd>>
extVars ==
    <<streamVars, filterVars, totalVars, controlVars, lockVars, updateVars>>

vars == <<ctlVars, logVars, busVars, extVars>>

\* what the actions of each part leave unchanged
nonCtl == <<logVars, busVars, extVars>>
nonLog == <<ctlVars, busVars, extVars>>
nonBus == <<ctlVars, logVars, extVars>>

CyclePcs == {"start", "fetch", "totals", "write", "finish"}
CountdownPcs == {"cd_pause", "cd_now", "cd_write", "cd_sleep"}

\* The state of the scheduler's state machine, read off the position of
\* main() and its local `paused` (the flag as last observed by the loop).
SchedState ==
    IF pc = "dead" THEN "DEAD"
    ELSE IF pc \in CyclePcs THEN "RUNNING_CYCLE"
    ELSE IF paused THEN "PAUSED"
    ELSE "COUNTING_DOWN"

CtlInit ==
    /\ refresh_paused = FALSE
    /\ refresh_now = FALSE
    /\ status = [next_refresh_in |-> REFRESH_INTERVAL, last_total |-> "None"]
    /\ pc = "top"
    /\ i = REFRESH_INTERVAL
    /\ paused = FALSE
    /\ do_refresh_now = FALSE
    /\ items_ok = TRUE
    /\ total_raised = "none"
    /\ hpc = [h \in Handlers |-> "idle"]
    /\ hop = [h \in Handlers |-> "none"]
    /\ hret = [h \in Handlers |-> None]
    /\ hflag = [h \in Handlers |-> FALSE]
    /\ hist = [nReq |-> 0, nTrigReq |-> 0, nTrigCycles |-> 0, running |-> 0,
               pauseDone |-> FALSE, resumeQuiet |-> FALSE, pendingTicks |-> 0,
               trigWhilePaused |-> FALSE, lastCycle |-> "none",
               startCause |-> "none"]

\* ------------------------------------------------- main(): the scheduler

\* dict.update of the status dict under status_lock
SetNextRefresh(st, v) == [st EXCEPT !.next_refresh_in = v]

\* lines 224-226: the flag read at the top of the loop decides the branch
ObservedPause_TriggerFirst(flag, now) == flag /\ ~now
ObservedPause(flag, now) == flag

\* lines 235 and 249: `refresh_now = False` once the trigger is taken
ConsumedRefreshNow_Kept == TRUE
ConsumedRefreshNow == FALSE

\* lines 246-247: the countdown's look at refresh_now, once per iteration
CountdownSeesTrigger_Never(now) == FALSE
CountdownSeesTrigger(now) == now

\* line 238: range(REFRESH_INTERVAL, 0, -1) starts every countdown afresh
CountdownStart(prev) == REFRESH_INTERVAL

\* lines 272-277: the display built from what get_total_raised returned;
\* None and numeric text take the float branch, other text the except branch
TotalDisplay(t) == IF t = "text" THEN "fallback" ELSE "numeric"

\* lines 292-296: update_status(last_total=..., last_refresh=..., next_refresh_in=REFRESH_INTERVAL)
StatusAfterCycle_KeepCountdown(st, t) == [st EXCEPT !.last_total = TotalDisplay(t)]
StatusAfterCycle(st, t) ==
    [next_refresh_in |-> REFRESH_INTERVAL, last_total |-> TotalDisplay(t)]

\* lines 224-226: read refresh_paused
MainTop ==
    /\ pc = "top"
    /\ paused' = ObservedPause(refresh_paused, refresh_now)
    /\ pc' = IF paused' THEN "p_write" ELSE "chk_now"
    /\ hist' = [hist EXCEPT !.lastCycle = "none"]
    /\ UNCHANGED <<nonCtl, sharedVars, i, do_refresh_now, items_ok, total_raised,
                   handlerVars>>

\* lines 227-228: paused, report no countdown
MainPausedWrite ==
    /\ pc = "p_write"
    /\ status' = SetNextRefresh(status, None)
    /\ pc' = "p_sleep"
    /\ UNCHANGED <<nonCtl, refresh_paused, refresh_now, i, paused, do_refresh_now,
                   items_ok, total_raised, handlerVars, hist>>

\* lines 229-230: time.sleep(1); continue
MainPausedSleep ==
    /\ pc = "p_sleep"
    /\ pc' = "top"
    /\ UNCHANGED <<nonCtl, sharedVars, i, paused, do_refresh_now, items_ok,
                   total_raised, handlerVars, hist>>

\* lines 232-238: take a pending trigger, else enter the countdown
MainCheckNow ==
    /\ pc = "chk_now"
    /\ do_refresh_now' = refresh_now
    /\ IF refresh_now
       THEN /\ refresh_now' = ConsumedRefreshNow
            /\ pc' = "start"
            /\ i' = i
            /\ hist' = [hist EXCEPT !.nTrigCycles = @ + 1, !.pendingTicks = 0,
                                    !.startCause = "top"]
       ELSE /\ refresh_now' = refresh_now
            /\ pc' = "cd_pause"
            /\ i' = CountdownStart(i)
            /\ hist' = hist
    /\ UNCHANGED <<nonCtl, refresh_paused, status, paused, items_ok, total_raised,
                   handlerVars>>

\* lines 239-242: the countdown's look at refresh_paused
MainCountdownPause ==
    /\ pc = "cd_pause"
    /\ paused' = (paused \/ refresh_paused)
    /\ pc' = IF paused' THEN "cd_pwrite" ELSE "cd_now"
    /\ UNCHANGED <<nonCtl, sharedVars, i, do_refresh_now, items_ok, total_raised,
                   handlerVars, hist>>

\* lines 243-245 and 254-255: report no countdown, break, continue
MainCountdownPausedWrite ==
    /\ pc = "cd_pwrite"
    /\ status' = SetNextRefresh(status, None)
    /\ pc' = "top"
    /\ UNCHANGED <<nonCtl, refresh_paused, refresh_now, i, paused, do_refresh_now,
                   items_ok, total_raised, handlerVars, hist>>

\* lines 246-250: the countdown's look at refresh_now
MainCountdownNow ==
    /\ pc = "cd_now"
    /\ IF CountdownSeesTrigger(refresh_now)
       THEN /\ do_refresh_now' = TRUE
            /\ refresh_now' = ConsumedRefreshNow
            /\ pc' = "start"
            /\ hist' = [hist EXCEPT !.nTrigCycles = @ + 1, !.pendingTicks = 0,
                                    !.startCause = "countdown"]
       ELSE /\ do_refresh_now' = do_refresh_now
            /\ refresh_now' = refresh_now
            /\ pc' = "cd_write"
            /\ hist' = hist
    /\ UNCHANGED <<nonCtl, refresh_paused, status, i, paused, items_ok, total_raised,
                   handlerVars>>

\* lines 251-252: publish the remaining seconds
MainCountdownWrite ==
    /\ pc = "cd_write"
    /\ status' = SetNextRefresh(status, i)
    /\ pc' = "cd_sleep"
    /\ UNCHANGED <<nonCtl, refresh_paused, refresh_now, i, paused, do_refresh_now,
                   items_ok, total_raised, handlerVars, hist>>

\* line 253 and the loop header 238: time.sleep(1), then the next value of i
\* or, after the last one, the end of the loop
MainCountdownSleep ==
    /\ pc = "cd_sleep"
    /\ IF i > 1
       THEN /\ i' = i - 1
            /\ pc' = "cd_pause"
            /\ hist' = [hist EXCEPT
                   !.pendingTicks = IF refresh_now THEN @ + 1 ELSE @,
                   !.resumeQuiet = FALSE]
       ELSE /\ i' = i
            /\ pc' = "start"
            /\ hist' = [hist EXCEPT
                   !.pendingTicks = IF refresh_now THEN @ + 1 ELSE @,
                   !.resumeQuiet = FALSE,
                   !.startCause = "expiry"]
    /\ hflag' = [h \in Handlers |-> IF hop[h] = "resume" THEN FALSE ELSE hflag[h]]
    /\ UNCHANGED <<nonCtl, sharedVars, paused, do_refresh_now, items_ok, total_raised,
                   hpc, hop, hret>>

\* lines 257-260: the cycle begins
MainStart ==
    /\ pc = "start"
    /\ status' = SetNextRefresh(status, 0)
    /\ pc' = "fetch"
    /\ hist' = [hist EXCEPT !.running = @ + 1, !.startCause = "none",
                            !.trigWhilePaused = FALSE]
    /\ UNCHANGED <<nonCtl, refresh_paused, refresh_now, i, paused, do_refresh_now,
                   items_ok, total_raised, handlerVars>>

\* lines 261-267 (fetch_auction_items, lines 110-167): a page that fails to
\* load is logged and ends the pagination, the items found so far are used
MainFetch ==
    /\ pc = "fetch"
    /\ \E ok \in BOOLEAN : items_ok' = ok
    /\ pc' = "totals"
    /\ UNCHANGED <<nonCtl, sharedVars, i, paused, do_refresh_now, total_raised,
                   handlerVars, hist>>

\* lines 268-277 (get_total_raised, lines 194-212): the fetch returns numeric
\* text, other text, or None (also when it raised: the exception is caught)
MainTotals ==
    /\ pc = "totals"
    /\ \E t \in {"numeric", "text", "none"} : total_raised' = t
    /\ pc' = "write"
    /\ UNCHANGED <<nonCtl, sharedVars, i, paused, do_refresh_now, items_ok,
                   handlerVars, hist>>

\* lines 278-291: open('auction_items.json', 'w') and json.dump
MainWrite ==
    /\ pc = "write"
    /\ pc' = "finish"
    /\ UNCHANGED <<nonCtl, sharedVars, i, paused, do_refresh_now, items_ok,
                   total_raised, handlerVars, hist>>

\* lines 285-286 are under no try of their own and main's try (lines 222,
\* 297) catches KeyboardInterrupt only: an OSError of the write leaves
\* main() and ends the scheduler thread
MainWriteFails ==
    /\ pc = "write"
    /\ pc' = "dead"
    /\ hist' = [hist EXCEPT !.running = @ - 1]
    /\ UNCHANGED <<nonCtl, sharedVars, i, paused, do_refresh_now, items_ok,
                   total_raised, handlerVars>>

\* lines 287-296: the cycle ends with update_status(...)
MainFinish ==
    /\ pc = "finish"
    /\ status' = StatusAfterCycle(status, total_raised)
    /\ pc' = "top"
    /\ hist' = [hist EXCEPT !.running = @ - 1,
                            !.lastCycle = IF items_ok /\ total_raised = "numeric"
                                          THEN "ok" ELSE "partial"]
    \* the cycle's locals are dead until the next cycle assigns them again;
    \* they are reset so that states differing only in them coincide
    /\ items_ok' = TRUE
    /\ total_raised' = "none"
    /\ UNCHANGED <<nonCtl, refresh_paused, refresh_now, i, paused, do_refresh_now,
                   handlerVars>>

Main ==
    \/ MainTop
    \/ MainPausedWrite
    \/ MainPausedSleep
    \/ MainCheckNow
    \/ MainCountdownPause
    \/ MainCountdownPausedWrite
    \/ MainCountdownNow
    \/ MainCountdownWrite
    \/ MainCountdownSleep
    \/ MainStart
    \/ MainFetch
    \/ MainTotals
    \/ MainWrite
    \/ MainWriteFails
    \/ MainFinish

\* --------------------------------------------- /refresh and /status handlers

\* lines 369, 374, 379: the countdown value each /refresh state passes to
\* update_status
RefreshStatusValue(state) ==
    IF state = "pause" THEN None
    ELSE IF state = "resume" THEN REFRESH_INTERVAL
    ELSE 0

OthersQuiet(h) == \A g \in Handlers \ {h} : hop[g] \in {"none", "status"}

\* lines 362-368, 371-373, 376-378: set_refresh writes the flag of its state
SetRefreshFlag(h, state) ==
    /\ hpc[h] = "idle"
    /\ hist.nReq < MaxRequests
    /\ refresh_paused' = IF state = "pause" THEN TRUE
                         ELSE IF state = "resume" THEN FALSE
                         ELSE refresh_paused
    /\ refresh_now' = IF state = "now" THEN TRUE ELSE refresh_now
    /\ hpc' = [hpc EXCEPT ![h] = "upd"]
    /\ hop' = [hop EXCEPT ![h] = state]
    /\ hflag' = [g \in Handlers |->
                   IF g = h
                   THEN state = "resume" /\ SchedState = "PAUSED"
                        /\ ~refresh_now /\ OthersQuiet(h)
                   ELSE IF hop[g] = "resume" THEN FALSE ELSE hflag[g]]
    /\ hist' = [hist EXCEPT
           !.nReq = @ + 1,
           !.nTrigReq = IF state = "now" THEN @ + 1 ELSE @,
           !.trigWhilePaused = IF state = "now"
                               THEN SchedState = "PAUSED" /\ refresh_paused
                               ELSE @,
           !.pauseDone = IF state = "resume" THEN FALSE ELSE @,
           !.resumeQuiet = FALSE]
    /\ UNCHANGED <<nonCtl, status, schedVars, hret>>

\* update_status, lines 70-72, as called at lines 369, 374, 379
SetRefreshUpdateStatus(h) ==
    /\ hpc[h] = "upd"
    /\ status' = SetNextRefresh(status, RefreshStatusValue(hop[h]))
    /\ hpc' = [hpc EXCEPT ![h] = "ret"]
    /\ UNCHANGED <<nonCtl, refresh_paused, refresh_now, schedVars, hop, hret, hflag, hist>>

\* lines 73-75 and 382-384: the snapshot is published, the audit line is
\* logged and the response returned; none of these writes a variable here
SetRefreshReturn(h) ==
    /\ hpc[h] = "ret"
    /\ hop[h] \in {"pause", "resume", "now"}
    /\ hpc' = [hpc EXCEPT ![h] = "idle"]
    /\ hop' = [hop EXCEPT ![h] = "none"]
    /\ hflag' = [hflag EXCEPT ![h] = FALSE]
    /\ hist' = [hist EXCEPT
           !.pauseDone = IF hop[h] = "pause" THEN OthersQuiet(h) ELSE @,
           !.resumeQuiet = IF hop[h] = "resume" THEN hflag[h] ELSE @]
    /\ UNCHANGED <<nonCtl, sharedVars, schedVars, hret>>

\* lines 395-397 with 46-47: get_status copies the status dict
GetStatus(h) ==
    /\ hpc[h] = "idle"
    /\ hpc' = [hpc EXCEPT ![h] = "ret"]
    /\ hop' = [hop EXCEPT ![h] = "status"]
    /\ hret' = [hret EXCEPT ![h] = status.next_refresh_in]
    /\ hflag' = [hflag EXCEPT ![h] = hist.pauseDone]
    /\ UNCHANGED <<nonCtl, sharedVars, schedVars, hist>>

\* lines 48-55 and 397: the rest of the snapshot, and the response
GetStatusReturn(h) ==
    /\ hpc[h] = "ret"
    /\ hop[h] = "status"
    /\ hpc' = [hpc EXCEPT ![h] = "idle"]
    /\ hop' = [hop EXCEPT ![h] = "none"]
    /\ hret' = [hret EXCEPT ![h] = None]
    /\ hflag' = [hflag EXCEPT ![h] = FALSE]
    /\ UNCHANGED <<nonCtl, sharedVars, schedVars, hist>>

Handler(h) ==
    \/ \E state \in {"pause", "resume", "now"} : SetRefreshFlag(h, state)
    \/ SetRefreshUpdateStatus(h)
    \/ SetRefreshReturn(h)
    \/ GetStatus(h)
    \/ GetStatusReturn(h)

\* ------------------------------------------------------------ add_log

LogInit ==
    /\ log_entries = <<>>
    /\ lpc = [t \in LogThreads |-> "idle"]
    /\ nAppended = 0

\* lines 93-95: append, then drop the oldest entry when over MAX_LOGS
AddLogBuffer_DropNewest(buf, entry) ==
    IF Len(buf) + 1 > MAX_LOGS THEN buf ELSE Append(buf, entry)
AddLogBuffer(buf, entry) ==
    LET appended == Append(buf, entry)
    IN  IF Len(appended) > MAX_LOGS THEN Tail(appended) ELSE appended

\* lines 90-91: the entry is built before the lock is taken
AddLogEntry(t) ==
    /\ lpc[t] = "idle"
    /\ nAppended + Cardinality({u \in LogThreads : lpc[u] = "entry"}) < MaxAppends
    /\ lpc' = [lpc EXCEPT ![t] = "entry"]
    /\ UNCHANGED <<nonLog, log_entries, nAppended>>

\* lines 92-95: the block under log_lock; an entry is identified by its
\* place in the order of the appends
AddLogAppend(t) ==
    /\ lpc[t] = "entry"
    /\ nAppended' = nAppended + 1
    /\ log_entries' = AddLogBuffer(log_entries, nAppended')
    /\ lpc' = [lpc EXCEPT ![t] = "publish"]
    /\ UNCHANGED <<nonLog>>

\* line 96: publish_event('log', entry), outside the lock
AddLogPublish(t) ==
    /\ lpc[t] = "publish"
    /\ lpc' = [lpc EXCEPT ![t] = "idle"]
    /\ UNCHANGED <<nonLog, log_entries, nAppended>>

AddLog(t) == AddLogEntry(t) \/ AddLogAppend(t) \/ AddLogPublish(t)

LogNext == \E t \in LogThreads : AddLog(t)

\* ------------------------------- subscribe, unsubscribe, publish_event

BusInit ==
    /\ event_subscribers = {}
    /\ queue = [q \in Subs |-> <<>>]
    /\ sstate = [q \in Subs |-> "new"]
    /\ ppc = [p \in Publishers |-> "idle"]
    /\ pev = [p \in Publishers |-> 0]
    /\ subscribers = [p \in Publishers |-> {}]
    /\ bus = [nPub |-> 0,
              begin |-> [e \in 1..MaxEvents |-> {}],
              done |-> {},
              got |-> [q \in Subs |-> {}],
              taken |-> [q \in Subs |-> 0]]

\* queue.Queue.put(payload, timeout=0.1), lines 63-66: with a capacity the
\* put waits, raises Full and the event is skipped; with maxsize 0 it appends
QueuePut_Maxsize1(q, payload) ==
    IF Len(q) >= 1 THEN q ELSE Append(q, payload)
QueuePut(q, payload) ==
    IF QueueMaxsize > 0 /\ Len(q) >= QueueMaxsize THEN q ELSE Append(q, payload)

\* lines 78-82: subscribe_events
SubscribeEvents(q) ==
    /\ sstate[q] = "new"
    /\ sstate' = [sstate EXCEPT ![q] = "open"]
    /\ event_subscribers' = event_subscribers \cup {q}
    /\ UNCHANGED <<nonBus, queue, ppc, pev, subscribers, bus>>

\* lines 85-87: unsubscribe_events, from the stream's finally (line 418)
UnsubscribeEvents(q) ==
    /\ sstate[q] = "open"
    /\ sstate' = [sstate EXCEPT ![q] = "closed"]
    /\ event_subscribers' = event_subscribers \ {q}
    /\ UNCHANGED <<nonBus, queue, ppc, pev, subscribers, bus>>

\* line 412: the stream takes the next event off its queue
StreamGet(q) ==
    /\ sstate[q] = "open"
    /\ queue[q] # <<>>
    /\ queue' = [queue EXCEPT ![q] = Tail(@)]
    /\ bus' = [bus EXCEPT !.taken[q] = Head(queue[q])]
    /\ UNCHANGED <<nonBus, event_subscribers, sstate, ppc, pev,
                   subscribers>>

\* lines 58-59: publish_event is entered and builds its payload
PublishEvent(p) ==
    /\ ppc[p] = "idle"
    /\ bus.nPub < MaxEvents
    /\ pev' = [pev EXCEPT ![p] = bus.nPub + 1]
    /\ ppc' = [ppc EXCEPT ![p] = "snapshot"]
    /\ bus' = [bus EXCEPT !.nPub = @ + 1,
                          !.begin[bus.nPub + 1] = event_subscribers]
    /\ UNCHANGED <<nonBus, event_subscribers, queue, sstate,
                   subscribers>>

\* lines 60-61: the registry is copied under event_subscribers_lock
PublishSnapshot(p) ==
    /\ ppc[p] = "snapshot"
    /\ subscribers' = [subscribers EXCEPT ![p] = event_subscribers]
    /\ IF event_subscribers = {}
       THEN /\ ppc' = [ppc EXCEPT ![p] = "idle"]
            /\ bus' = [bus EXCEPT !.done = @ \cup {pev[p]}]
       ELSE /\ ppc' = [ppc EXCEPT ![p] = "put"]
            /\ bus' = bus
    /\ UNCHANGED <<nonBus, event_subscribers, queue, sstate, pev>>

\* lines 62-66: one iteration of the loop over the copy; list(set) gives the
\* queues in no particular order
PublishPut(p, q) ==
    /\ ppc[p] = "put"
    /\ q \in subscribers[p]
    /\ queue' = [queue EXCEPT ![q] = QueuePut(@, pev[p])]
    /\ subscribers' = [subscribers EXCEPT ![p] = @ \ {q}]
    /\ ppc' = [ppc EXCEPT ![p] = IF subscribers'[p] = {} THEN "idle" ELSE "put"]
    /\ bus' = [bus EXCEPT
           !.got[q] = IF queue'[q] # queue[q] THEN @ \cup {pev[p]} ELSE @,
           !.done = IF subscribers'[p] = {} THEN @ \cup {pev[p]} ELSE @]
    /\ UNCHANGED <<nonBus, event_subscribers, sstate, pev>>

BusNext ==
    \/ \E q \in Subs : SubscribeEvents(q)
    \/ \E q \in Subs : UnsubscribeEvents(q)
    \/ \E q \in Subs : StreamGet(q)
    \/ \E p \in Publishers : PublishEvent(p)
    \/ \E p \in Publishers : PublishSnapshot(p)
    \/ \E p \in Publishers, q \in Subs : PublishPut(p, q)

\* ------------------------------------------- stream_events (/stream)

StreamInit ==
    /\ spc = [q \in Subs |-> "new"]
    /\ logs_copy = [q \in Subs |-> <<>>]
    /\ out = [q \in Subs |-> <<>>]

\* a frame of the event stream: its `event:` tag and its data
Frame(type, data) == [type |-> type, data |-> data]

\* lines 408-409: the dump frame is yielded only for a non-empty copy
LogsDump_Always(copy) == <<Frame("logs", copy)>>
LogsDump(copy) == IF copy # <<>> THEN <<Frame("logs", copy)>> ELSE <<>>

\* line 403: q = subscribe_events()
StreamSubscribe(q) ==
    /\ spc[q] = "new"
    /\ spc' = [spc EXCEPT ![q] = "status"]
    /\ sstate' = [sstate EXCEPT ![q] = "open"]
    /\ event_subscribers' = event_subscribers \cup {q}
    /\ UNCHANGED <<ctlVars, logVars, filterVars, totalVars,
                   controlVars, lockVars, updateVars, queue, ppc, pev, subscribers, bus,
                   logs_copy, out>>

\* line 405: the status snapshot is yielded
StreamYieldStatus(q) ==
    /\ spc[q] = "status"
    /\ out' = [out EXCEPT ![q] = Append(@, Frame("status", "snapshot"))]
    /\ spc' = [spc EXCEPT ![q] = "copy"]
    /\ UNCHANGED <<ctlVars, logVars, busVars, filterVars, totalVars,
                   controlVars, lockVars, updateVars, logs_copy>>

\* lines 406-407: the buffer is copied under log_lock
StreamCopyLogs(q) ==
    /\ spc[q] = "copy"
    /\ logs_copy' = [logs_copy EXCEPT ![q] = log_entries]
    /\ spc' = [spc EXCEPT ![q] = "dump"]
    /\ UNCHANGED <<ctlVars, logVars, busVars, filterVars, totalVars,
                   controlVars, lockVars, updateVars, out>>

\* lines 408-409
StreamYieldLogs(q) ==
    /\ spc[q] = "dump"
    /\ out' = [out EXCEPT ![q] = @ \o LogsDump(logs_copy[q])]
    /\ spc' = [spc EXCEPT ![q] = "loop"]
    /\ UNCHANGED <<ctlVars, logVars, busVars, filterVars, totalVars,
                   controlVars, lockVars, updateVars, logs_copy>>

\* lines 412 and 416: q.get returns an event, which is yielded
StreamYieldEvent(q) ==
    /\ spc[q] = "loop"
    /\ queue[q] # <<>>
    /\ Len(out[q]) < MaxFrames
    /\ out' = [out EXCEPT ![q] = Append(@, Head(queue[q]))]
    /\ queue' = [queue EXCEPT ![q] = Tail(@)]
    /\ UNCHANGED <<ctlVars, logVars, filterVars, totalVars,
                   controlVars, lockVars, updateVars, event_subscribers, sstate, ppc, pev,
                   subscribers, bus, spc, logs_copy>>

\* lines 412-415: q.get(timeout=KEEPALIVE_SECONDS) raises Empty when nothing
\* arrived during the wait, and a ping is yielded; the frame records how
\* many events were waiting
StreamPing(q) ==
    /\ spc[q] = "loop"
    /\ queue[q] = <<>>
    /\ Len(out[q]) < MaxFrames
    /\ out' = [out EXCEPT ![q] = Append(@, Frame("ping", Len(queue[q])))]
    /\ UNCHANGED <<ctlVars, logVars, busVars, filterVars, totalVars,
                   controlVars, lockVars, updateVars, spc, logs_copy>>

\* lines 417-418: the client goes away while the generator waits at a yield
\* or in q.get; the finally clause unsubscribes
StreamClose(q) ==
    /\ spc[q] \in {"copy", "dump", "loop"}
    /\ spc' = [spc EXCEPT ![q] = "closed"]
    /\ sstate' = [sstate EXCEPT ![q] = "closed"]
    /\ event_subscribers' = event_subscribers \ {q}
    /\ UNCHANGED <<ctlVars, logVars, filterVars, totalVars,
                   controlVars, lockVars, updateVars, queue, ppc, pev, subscribers, bus,
                   logs_copy, out>>

\* add_log, lines 89-96, up to the call of publish_event: the entry goes into
\* the buffer and is the payload of a 'log' event
StreamAddLog(p) ==
    /\ ppc[p] = "idle"
    /\ nAppended < MaxStreamEvents
    /\ nAppended' = nAppended + 1
    /\ log_entries' = AddLogBuffer(log_entries, nAppended')
    /\ pev' = [pev EXCEPT ![p] = Frame("log", nAppended')]
    /\ ppc' = [ppc EXCEPT ![p] = "snapshot"]
    /\ UNCHANGED <<ctlVars, filterVars, totalVars,
                   controlVars, lockVars, updateVars, lpc, event_subscribers, queue, sstate,
                   subscribers, bus, streamVars>>

\* update_status, lines 69-75, up to the call of publish_event
StreamUpdateStatus(p) ==
    /\ ppc[p] = "idle"
    /\ bus.nPub < MaxStreamEvents
    /\ bus' = [bus EXCEPT !.nPub = @ + 1]
    /\ pev' = [pev EXCEPT ![p] = Frame("status", "snapshot")]
    /\ ppc' = [ppc EXCEPT ![p] = "snapshot"]
    /\ UNCHANGED <<ctlVars, logVars, filterVars, totalVars,
                   controlVars, lockVars, updateVars, event_subscribers, queue, sstate,
                   subscribers, streamVars>>

\* publish_event, lines 60-61
StreamPublishSnapshot(p) ==
    /\ ppc[p] = "snapshot"
    /\ subscribers' = [subscribers EXCEPT ![p] = event_subscribers]
    /\ ppc' = [ppc EXCEPT ![p] = IF event_subscribers = {} THEN "idle"
                                                           ELSE "put"]
    /\ UNCHANGED <<ctlVars, logVars, filterVars, totalVars,
                   controlVars, lockVars, updateVars, event_subscribers, queue, sstate, pev,
                   bus, streamVars>>

\* publish_event, lines 62-66
StreamPublishPut(p, q) ==
    /\ ppc[p] = "put"
    /\ q \in subscribers[p]
    /\ queue' = [queue EXCEPT ![q] = QueuePut(@, pev[p])]
    /\ subscribers' = [subscribers EXCEPT ![p] = @ \ {q}]
    /\ ppc' = [ppc EXCEPT ![p] = IF subscribers'[p] = {} THEN "idle" ELSE "put"]
    /\ UNCHANGED <<ctlVars, logVars, filterVars, totalVars,
                   controlVars, lockVars, updateVars, event_subscribers, sstate, pev, bus,
                   streamVars>>

StreamNext ==
    \/ \E q \in Streams : StreamSubscribe(q)
    \/ \E q \in Streams : StreamYieldStatus(q)
    \/ \E q \in Streams : StreamCopyLogs(q)
    \/ \E q \in Streams : StreamYieldLogs(q)
    \/ \E q \in Streams : StreamYieldEvent(q)
    \/ \E q \in Streams : StreamPing(q)
    \/ \E q \in Streams : StreamClose(q)
    \/ \E p \in Publishers : StreamAddLog(p)
    \/ \E p \in Publishers : StreamUpdateStatus(p)
    \/ \E p \in Publishers : StreamPublishSnapshot(p)
    \/ \E p \in Publishers, q \in Streams : StreamPublishPut(p, q)

\* ---------------------------------------------- apply_filters_to_items

\* A string is a sequence of characters. An item is its place in the list
\* and its title; NoTitle stands for an item whose 'title' is missing or
\* None.
NoTitle == <<"None">>
Titles == {NoTitle, <<>>, <<"b">>, <<"A", "b">>, <<"B", "a", "B">>}
\* set_filters installs only stripped, non-empty terms (lines 331-343)
Terms == {<<"a">>, <<"B">>, <<"a", "B">>, <<"b", "A">>}

\* all sequences over S of length at most n
RECURSIVE SeqsUpTo(_, _)
SeqsUpTo(S, n) ==
    IF n = 0 THEN {<<>>}
    ELSE LET shorter == SeqsUpTo(S, n - 1)
         IN  shorter \cup {Append(x, e) : x \in shorter, e \in S}

ItemLists ==
    {[k \in DOMAIN ts |-> [id |-> k, title |-> ts[k]]] :
        ts \in SeqsUpTo(Titles, MaxItems)}
FilterSets == SeqsUpTo(Terms, MaxTerms)

\* str.lower()
LowerChar(c) == CASE c = "A" -> "a" [] c = "B" -> "b" [] OTHER -> c
Lower(str) == [k \in DOMAIN str |-> LowerChar(str[k])]

\* `term in title_lower`: substring containment
Contains(str, term) ==
    \E k \in 0..(Len(str) - Len(term)) : SubSeq(str, k + 1, k + Len(term)) = term

\* line 173: [(f, f.lower()) for f in filters if f]
RECURSIVE ActiveFilters(_)
ActiveFilters(fs) ==
    IF fs = <<>> THEN <<>>
    ELSE LET f == Head(fs)
         IN  IF f # <<>>
             THEN <<[original |-> f, term |-> Lower(f)]>> \o ActiveFilters(Tail(fs))
             ELSE ActiveFilters(Tail(fs))

\* line 179: item.get('title') or ''
TitleOf(item) == IF item.title = NoTitle THEN <<>> ELSE item.title

\* lines 181-185: the first term found in the title wins; <<>> is None
RECURSIVE Matched_LastWins(_, _)
Matched_LastWins(active, title_lower) ==
    IF active = <<>> THEN <<>>
    ELSE LET later == Matched_LastWins(Tail(active), title_lower)
         IN  IF later # <<>> THEN later
             ELSE IF Contains(title_lower, Head(active).term)
                  THEN Head(active).original ELSE <<>>
RECURSIVE Matched(_, _)
Matched(active, title_lower) ==
    IF active = <<>> THEN <<>>
    ELSE IF Contains(title_lower, Head(active).term)
         THEN Head(active).original
         ELSE Matched(Tail(active), title_lower)

\* lines 186-189: one iteration of the loop over the items, on the pair of
\* the two result lists
FilterItem_NoContinue(acc, item, matched) ==
    [kept |-> Append(acc.kept, item),
     out |-> IF matched # <<>>
             THEN Append(acc.out, [item |-> item, term |-> matched])
             ELSE acc.out]
FilterItem(acc, item, matched) ==
    IF matched # <<>>
    THEN [acc EXCEPT !.out = Append(@, [item |-> item, term |-> matched])]
    ELSE [acc EXCEPT !.kept = Append(@, item)]

RECURSIVE FilterLoop(_, _, _)
FilterLoop(acc, rest, active) ==
    IF rest = <<>> THEN acc
    ELSE FilterLoop(FilterItem(acc, Head(rest),
                               Matched(active, Lower(TitleOf(Head(rest))))),
                    Tail(rest), active)

\* lines 170-190
apply_filters_to_items(its, fs) ==
    LET active == ActiveFilters(fs)
    IN  IF active = <<>> THEN [kept |-> its, out |-> <<>>]
        ELSE FilterLoop([kept |-> <<>>, out |-> <<>>], its, active)

FilterIdle ==
    /\ filters = <<>>
    /\ items = <<>>
    /\ filtered_items = <<>>
    /\ filtered_out = <<>>
    /\ fpc = "call"

\* any item list, against any keyword list set_filters can have installed
FilterInputs ==
    /\ filters \in FilterSets
    /\ items \in ItemLists
    /\ filtered_items = <<>>
    /\ filtered_out = <<>>
    /\ fpc = "call"

\* line 262: filtered_items, filtered_out = apply_filters_to_items(items)
ApplyFilters ==
    /\ fpc = "call"
    /\ LET r == apply_filters_to_items(items, filters)
       IN  /\ filtered_items' = r.kept
           /\ filtered_out' = r.out
    /\ fpc' = "done"
    /\ UNCHANGED <<ctlVars, logVars, busVars, streamVars, totalVars,
                   controlVars, lockVars, updateVars, filters, items>>

FilterNext == ApplyFilters

\* ------------------------------------------ the total of a scrape cycle

\* get_total_raised returns the text of the page element, or None (lines
\* 194-212); NoTotal stands for None
NoTotal == <<"None">>
TotalTexts ==
    {NoTotal, <<>>, <<"T", "B", "D">>,
     <<"$", "1", "0", "0", ".", "0", "0">>,
     <<"$", "1", ",", "2", "3", "4", ".", "5", "0">>,
     <<"$", "9", "9", "5", ".", "5">>,
     <<"$", "2">>}
\* amounts set_adjustment can have stored, in cents
Adjustments == {-250, 0, 450, 1250}

Digits == <<"0", "1", "2", "3", "4", "5", "6", "7", "8", "9">>
DigitSet == {Digits[k] : k \in DOMAIN Digits}
DigitVal(c) == CHOOSE d \in 0..9 : Digits[d + 1] = c

RECURSIVE NatOf(_)
NatOf(str) ==
    IF str = <<>> THEN 0
    ELSE NatOf(SubSeq(str, 1, Len(str) - 1)) * 10 + DigitVal(str[Len(str)])

RECURSIVE NatStr(_)
NatStr(n) ==
    IF n < 10 THEN <<Digits[n + 1]>>
    ELSE NatStr(n \div 10) \o <<Digits[(n % 10) + 1]>>

\* str.replace(c, '')
Remove(str, c) == SelectSeq(str, LAMBDA x : x # c)

\* line 273: total_raised.replace('$','').replace(',','')
StripCurrency_KeepCommas(text) == Remove(text, "$")
StripCurrency(text) == Remove(Remove(text, "$"), ",")

\* float(str) for texts of digits with a sign and a decimal point, read in
\* cents (the texts keep to two decimals); anything else raises ValueError
ParseFloat(str) ==
    LET signed == str # <<>> /\ Head(str) \in {"-", "+"}
        body == IF signed THEN Tail(str) ELSE str
        dots == {k \in DOMAIN body : body[k] = "."}
        dot == IF dots = {} THEN Len(body) + 1 ELSE CHOOSE k \in dots : TRUE
        int == SubSeq(body, 1, dot - 1)
        frac == SubSeq(body, dot + 1, Len(body))
        ok == /\ Cardinality(dots) <= 1
              /\ \A k \in DOMAIN body : k # dot => body[k] \in DigitSet
              /\ int # <<>> \/ frac # <<>>
              /\ Len(frac) <= 2
        cents == NatOf(int) * 100
                 + (IF Len(frac) = 1 THEN DigitVal(frac[1]) * 10 ELSE NatOf(frac))
    IN  IF ok THEN [ok |-> TRUE,
                    value |-> IF signed /\ Head(str) = "-" THEN -cents ELSE cents]
        ELSE [ok |-> FALSE, value |-> 0]

\* the `,` of a format specification: a comma before every group of three
RECURSIVE Group(_)
Group(digits) ==
    IF Len(digits) <= 3 THEN digits
    ELSE Group(SubSeq(digits, 1, Len(digits) - 3)) \o <<",">>
         \o SubSeq(digits, Len(digits) - 2, Len(digits))

Abs(c) == IF c < 0 THEN -c ELSE c
Decimals(c) == <<".", Digits[((Abs(c) % 100) \div 10) + 1], Digits[(Abs(c) % 10) + 1]>>

\* line 275: f"${total_raised_adj:,.2f}"
FormatCurrency(c) ==
    <<"$">> \o (IF c < 0 THEN <<"-">> ELSE <<>>)
    \o Group(NatStr(Abs(c) \div 100)) \o Decimals(c)

\* line 277: f"{total_raised} (+{adj:+.2f})"
FormatFallback(text, a) ==
    (IF text = NoTotal THEN <<"N", "o", "n", "e">> ELSE text)
    \o <<" ", "(", "+">> \o <<IF a < 0 THEN "-" ELSE "+">>
    \o NatStr(Abs(a) \div 100) \o Decimals(a) \o <<")">>

\* lines 272-277: None and '' are falsy and count as 0.0
TotalRaisedDisplay(text, a) ==
    LET parsed == IF text # NoTotal /\ text # <<>>
                  THEN ParseFloat(StripCurrency(text))
                  ELSE [ok |-> TRUE, value |-> 0]
    IN  IF parsed.ok THEN FormatCurrency(parsed.value + a)
        ELSE FormatFallback(text, a)

TotalInit ==
    /\ manual_adjustment = 0
    /\ total_text = NoTotal
    /\ adj = 0
    /\ total_raised_display = <<>>
    /\ artifact_total = <<>>
    /\ last_total = <<>>
    /\ tpc = "fetch"
    /\ nAdj = 0

\* line 268: total_raised = get_total_raised(...)
TotalFetch ==
    /\ tpc = "fetch"
    /\ total_text' \in TotalTexts
    /\ tpc' = "read"
    /\ UNCHANGED <<ctlVars, logVars, busVars, streamVars, filterVars,
                   controlVars, lockVars, updateVars,
                   manual_adjustment, adj, total_raised_display,
                   artifact_total, last_total, nAdj>>

\* lines 269-270
TotalReadAdjustment ==
    /\ tpc = "read"
    /\ adj' = manual_adjustment
    /\ tpc' = "format"
    /\ UNCHANGED <<ctlVars, logVars, busVars, streamVars, filterVars,
                   controlVars, lockVars, updateVars,
                   manual_adjustment, total_text, total_raised_display,
                   artifact_total, last_total, nAdj>>

\* lines 272-277
TotalFormat ==
    /\ tpc = "format"
    /\ total_raised_display' = TotalRaisedDisplay(total_text, adj)
    /\ tpc' = "write"
    /\ UNCHANGED <<ctlVars, logVars, busVars, streamVars, filterVars,
                   controlVars, lockVars, updateVars,
                   manual_adjustment, total_text, adj, artifact_total,
                   last_total, nAdj>>

\* lines 278-286: the artifact is written
TotalWrite ==
    /\ tpc = "write"
    /\ artifact_total' = total_raised_display
    /\ tpc' = "status"
    /\ UNCHANGED <<ctlVars, logVars, busVars, streamVars, filterVars,
                   controlVars, lockVars, updateVars,
                   manual_adjustment, total_text, adj, total_raised_display,
                   last_total, nAdj>>

\* lines 292-296: update_status(last_total=...)
TotalUpdateStatus ==
    /\ tpc = "status"
    /\ last_total' = total_raised_display
    /\ tpc' = "done"
    /\ UNCHANGED <<ctlVars, logVars, busVars, streamVars, filterVars,
                   controlVars, lockVars, updateVars,
                   manual_adjustment, total_text, adj, total_raised_display,
                   artifact_total, nAdj>>

\* the countdown, then the next cycle
TotalNextCycle ==
    /\ tpc = "done"
    /\ tpc' = "fetch"
    /\ UNCHANGED <<ctlVars, logVars, busVars, streamVars, filterVars,
                   controlVars, lockVars, updateVars,
                   manual_adjustment, total_text, adj, total_raised_display,
                   artifact_total, last_total, nAdj>>

\* set_adjustment, lines 316-317, on a request handler's thread
TotalSetAdjustment(amt) ==
    /\ nAdj < MaxAdjustments
    /\ nAdj' = nAdj + 1
    /\ manual_adjustment' = amt
    /\ UNCHANGED <<ctlVars, logVars, busVars, streamVars, filterVars,
                   controlVars, lockVars, updateVars,
                   total_text, adj, total_raised_display, artifact_total,
                   last_total, tpc>>

TotalNext ==
    \/ TotalFetch
    \/ TotalReadAdjustment
    \/ TotalFormat
    \/ TotalWrite
    \/ TotalUpdateStatus
    \/ TotalNextCycle
    \/ \E amt \in Adjustments : TotalSetAdjustment(amt)

\* ------------------------------ the control requests, statement by statement

\* Here filters_lock is explicit, since its block in set_filters holds
\* three statements (lines 346-348); every other block is one statement.

\* the keyword lists the requests of ControlSpec carry
Keywords == {<<<<"a">>>>, <<<<"a", "B">>, <<"B">>>>}

\* The requests: the route, the shape of the JSON body, and its content.
\*   adjustment  amount a number | amount a text float() rejects
\*   filters     keywords a list | a number | body null | body an array
\*   refresh     state pause, resume, now | any other text
\*   status      GET /status
Request(op, kind, amount, keywords) ==
    [op |-> op, kind |-> kind, amount |-> amount, keywords |-> keywords]
Requests ==
    {Request("adjustment", k, 450, <<>>) : k \in {"number", "text"}}
    \cup {Request("filters", "list", 0, ks) : ks \in Keywords}
    \cup {Request("filters", k, 0, <<>>) : k \in {"number", "null", "array"}}
    \cup {Request("refresh", k, 0, <<>>) : k \in {"pause", "resume", "now", "bogus"}}
    \cup {Request("status", "get", 0, <<>>)}
NoRequest == Request("none", "none", 0, <<>>)

\* lines 315-316, 331-343, 363: whether reading the body raises
ParseRaises(req) ==
    \/ req.op = "adjustment" /\ req.kind = "text"    \* float('abc')
    \/ req.op = "filters" /\ req.kind = "array"      \* list has no .get

\* lines 332-343: parsed_filters; str(5) for a number, [] for a null body
ParsedFilters(req) ==
    CASE req.kind = "list" -> req.keywords
      [] req.kind = "number" -> <<<<"5">>>>
      [] OTHER -> <<>>

\* lines 366-380: the message of set_refresh; "" stands for None
RefreshMessage_NowSilent(state) ==
    CASE state = "pause" -> "Refresh paused"
      [] state = "resume" -> "Refresh resumed"
      [] OTHER -> ""
RefreshMessage(state) ==
    CASE state = "pause" -> "Refresh paused"
      [] state = "resume" -> "Refresh resumed"
      [] state = "now" -> "Manual refresh requested"
      [] OTHER -> ""

\* `with filters_lock:` is entered only when nobody holds the lock
LockFree_Ignored(owner) == TRUE
LockFree(owner) == owner = "free"

NoSnapshot ==
    [next_refresh_in |-> None, refresh_paused |-> FALSE,
     manual_adjustment |-> 0, filters |-> <<>>]
NoAccount == [logs |-> 0, statuses |-> 0, mutated |-> FALSE, fresh |-> FALSE]

\* the complete keyword lists at this moment: the one installed last and
\* the ones being installed
CompleteFilters ==
    {installed} \cup {parsed_filters[h] : h \in {g \in Handlers : cpc[g] = "f_extend"}}
Observe(list) == [list |-> list, complete |-> list \in CompleteFilters]

ControlInit ==
    /\ cpc = [h \in Handlers |-> "idle"]
    /\ cop = [h \in Handlers |-> NoRequest]
    /\ cret = [h \in Handlers |-> "none"]
    /\ parsed_filters = [h \in Handlers |-> <<>>]
    /\ snap = [h \in Handlers |-> NoSnapshot]
    /\ filters_lock = "free"
    /\ published = 0
    /\ nOps = 0
    /\ acct = [h \in Handlers |-> NoAccount]
    /\ installed = <<>>
    /\ fobs = [r \in Handlers \cup {"main"} |-> Observe(<<>>)]

\* what no control request touches
ctlRest == <<schedVars, handlerVars, hist>>
filterRest == <<items, filtered_items, filtered_out, fpc>>
totalRest == <<total_text, adj, total_raised_display, artifact_total,
               last_total, tpc, nAdj>>
nonControl ==
    <<ctlRest, lpc, busVars, streamVars, filterRest, totalRest, lockVars,
      updateVars>>
\* the core state of the program
coreVars == <<manual_adjustment, filters, refresh_paused, refresh_now, status,
              log_entries, nAppended, published>>

\* the position after the request body is read (lines 313-316, 329-343,
\* 360-365, 395-397)
FirstStep(req) ==
    CASE ParseRaises(req) -> "fail"
      [] req.op = "adjustment" -> "adj_set"
      [] req.op = "filters" -> "f_clear"
      [] req.op = "refresh" /\ req.kind \in {"pause", "resume", "now"} -> "r_flag"
      [] req.op = "refresh" -> "return"
      [] OTHER -> "snap_status"

\* a request arrives and its body is read
ControlRequest(h, req) ==
    /\ cpc[h] \in {"idle", "done"}
    /\ nOps < MaxOps
    /\ nOps' = nOps + 1
    /\ cop' = [cop EXCEPT ![h] = req]
    /\ cret' = [cret EXCEPT ![h] = "none"]
    /\ acct' = [acct EXCEPT ![h] = NoAccount]
    /\ snap' = [snap EXCEPT ![h] = NoSnapshot]
    /\ parsed_filters' = [parsed_filters EXCEPT ![h] = ParsedFilters(req)]
    /\ cpc' = [cpc EXCEPT ![h] = FirstStep(req)]
    /\ UNCHANGED <<nonControl, coreVars, filters_lock, installed, fobs>>

\* lines 323-324, 353-354, 385-386: except Exception -> 400
ControlFail(h) ==
    /\ cpc[h] = "fail"
    /\ cret' = [cret EXCEPT ![h] = "error"]
    /\ cpc' = [cpc EXCEPT ![h] = "done"]
    /\ parsed_filters' = [parsed_filters EXCEPT ![h] = <<>>]
    /\ UNCHANGED <<nonControl, coreVars, cop, snap, filters_lock, nOps, acct,
                   installed, fobs>>

\* lines 317-318
SetAdjustment(h) ==
    /\ cpc[h] = "adj_set"
    /\ manual_adjustment' = cop[h].amount
    /\ acct' = [acct EXCEPT ![h].mutated = TRUE]
    /\ cpc' = [cpc EXCEPT ![h] = "log_append"]
    /\ UNCHANGED <<nonControl, filters, refresh_paused, refresh_now, status,
                   log_entries, nAppended, published, cop, cret,
                   parsed_filters, snap, filters_lock, nOps, installed, fobs>>

\* lines 345-346: filters_lock is taken and the list is cleared
SetFiltersClear(h) ==
    /\ cpc[h] = "f_clear"
    /\ LockFree(filters_lock)
    /\ filters_lock' = h
    /\ filters' = <<>>
    /\ cpc' = [cpc EXCEPT ![h] = "f_extend"]
    /\ UNCHANGED <<nonControl, manual_adjustment, refresh_paused, refresh_now,
                   status, log_entries, nAppended, published, cop, cret,
                   parsed_filters, snap, nOps, acct, installed, fobs>>

\* lines 347-348: the list is filled and copied, and the lock is released
SetFiltersExtend(h) ==
    /\ cpc[h] = "f_extend"
    /\ filters' = filters \o parsed_filters[h]
    /\ installed' = parsed_filters[h]
    /\ filters_lock' = "free"
    /\ acct' = [acct EXCEPT ![h].mutated = TRUE]
    /\ cpc' = [cpc EXCEPT ![h] = "log_append"]
    /\ UNCHANGED <<nonControl, manual_adjustment, refresh_paused, refresh_now,
                   status, log_entries, nAppended, published, cop, cret,
                   parsed_filters, snap, nOps, fobs>>

\* lines 366-378: the flag of the requested state is written under its lock
ControlRefreshFlag(h) ==
    /\ cpc[h] = "r_flag"
    /\ refresh_paused' = CASE cop[h].kind = "pause" -> TRUE
                           [] cop[h].kind = "resume" -> FALSE
                           [] OTHER -> refresh_paused
    /\ refresh_now' = IF cop[h].kind = "now" THEN TRUE ELSE refresh_now
    /\ acct' = [acct EXCEPT ![h].mutated = TRUE]
    /\ cpc' = [cpc EXCEPT ![h] = "status_update"]
    /\ UNCHANGED <<nonControl, manual_adjustment, filters, status, log_entries,
                   nAppended, published, cop, cret, parsed_filters, snap,
                   filters_lock, nOps, installed, fobs>>

\* update_status(next_refresh_in=...), lines 70-72
ControlStatusUpdate(h) ==
    /\ cpc[h] = "status_update"
    /\ status' = SetNextRefresh(status, RefreshStatusValue(cop[h].kind))
    /\ cpc' = [cpc EXCEPT ![h] = "snap_status"]
    /\ UNCHANGED <<nonControl, manual_adjustment, filters, refresh_paused,
                   refresh_now, log_entries, nAppended, published, cop, cret,
                   parsed_filters, snap, filters_lock, nOps, acct, installed,
                   fobs>>

\* get_status_snapshot, lines 46-47: the copy of the status dict
SnapshotStatus(h) ==
    /\ cpc[h] = "snap_status"
    /\ snap' = [snap EXCEPT ![h].next_refresh_in = status.next_refresh_in]
    /\ acct' = [acct EXCEPT ![h].fresh = acct[h].mutated]
    /\ cpc' = [cpc EXCEPT ![h] = "snap_refresh"]
    /\ UNCHANGED <<nonControl, coreVars, cop, cret, parsed_filters,
                   filters_lock, nOps, installed, fobs>>

\* lines 48-49
SnapshotRefresh(h) ==
    /\ cpc[h] = "snap_refresh"
    /\ snap' = [snap EXCEPT ![h].refresh_paused = refresh_paused]
    /\ cpc' = [cpc EXCEPT ![h] = "snap_manual"]
    /\ UNCHANGED <<nonControl, coreVars, cop, cret, parsed_filters,
                   filters_lock, nOps, acct, installed, fobs>>

\* lines 50-51
SnapshotManual(h) ==
    /\ cpc[h] = "snap_manual"
    /\ snap' = [snap EXCEPT ![h].manual_adjustment = manual_adjustment]
    /\ cpc' = [cpc EXCEPT ![h] = "snap_filters"]
    /\ UNCHANGED <<nonControl, coreVars, cop, cret, parsed_filters,
                   filters_lock, nOps, acct, installed, fobs>>

\* lines 52-54: list(filters) under filters_lock; GET /status returns the
\* snapshot, update_status goes on to publish it
SnapshotFilters(h) ==
    /\ cpc[h] = "snap_filters"
    /\ LockFree(filters_lock)
    /\ snap' = [snap EXCEPT ![h].filters = filters]
    /\ fobs' = [fobs EXCEPT ![h] = Observe(filters)]
    /\ cpc' = [cpc EXCEPT ![h] = IF cop[h].op = "status" THEN "return"
                                 ELSE "status_publish"]
    /\ UNCHANGED <<nonControl, coreVars, cop, cret, parsed_filters,
                   filters_lock, nOps, acct, installed>>

\* line 75: publish_event('status', snapshot); set_refresh logs afterwards
\* (lines 381-382), the other two handlers have logged before
ControlPublishStatus(h) ==
    /\ cpc[h] = "status_publish"
    /\ published' = published + 1
    /\ acct' = [acct EXCEPT ![h].statuses = @ + 1]
    /\ cpc' = [cpc EXCEPT ![h] =
           IF cop[h].op # "refresh" THEN "return"
           ELSE IF RefreshMessage(cop[h].kind) # "" THEN "log_append"
           ELSE "return"]
    /\ UNCHANGED <<nonControl, manual_adjustment, filters, refresh_paused,
                   refresh_now, status, log_entries, nAppended, cop, cret,
                   parsed_filters, snap, filters_lock, nOps, installed, fobs>>

\* add_log, lines 92-95
ControlLogAppend(h) ==
    /\ cpc[h] = "log_append"
    /\ nAppended' = nAppended + 1
    /\ log_entries' = AddLogBuffer(log_entries, nAppended')
    /\ acct' = [acct EXCEPT ![h].logs = @ + 1]
    /\ cpc' = [cpc EXCEPT ![h] = "log_publish"]
    /\ UNCHANGED <<nonControl, manual_adjustment, filters, refresh_paused,
                   refresh_now, status, published, cop, cret, parsed_filters,
                   snap, filters_lock, nOps, installed, fobs>>

\* add_log, line 96: publish_event('log', entry); set_adjustment and
\* set_filters call update_status() next (lines 320, 351)
ControlLogPublish(h) ==
    /\ cpc[h] = "log_publish"
    /\ published' = published + 1
    /\ cpc' = [cpc EXCEPT ![h] = IF cop[h].op = "refresh" THEN "return"
                                 ELSE "snap_status"]
    /\ UNCHANGED <<nonControl, manual_adjustment, filters, refresh_paused,
                   refresh_now, status, log_entries, nAppended, cop, cret,
                   parsed_filters, snap, filters_lock, nOps, acct, installed,
                   fobs>>

\* lines 321, 352, 383, 397: the handler returns 200 and its locals are gone
ControlReturn(h) ==
    /\ cpc[h] = "return"
    /\ cret' = [cret EXCEPT ![h] = "ok"]
    /\ cpc' = [cpc EXCEPT ![h] = "done"]
    /\ snap' = [snap EXCEPT ![h] = NoSnapshot]
    /\ parsed_filters' = [parsed_filters EXCEPT ![h] = <<>>]
    /\ UNCHANGED <<nonControl, coreVars, cop, filters_lock, nOps, acct,
                   installed, fobs>>

\* apply_filters_to_items, lines 172-173, in the scheduler's cycle
CycleReadFilters ==
    /\ LockFree(filters_lock)
    /\ fobs' = [fobs EXCEPT !["main"] = Observe(filters)]
    /\ UNCHANGED <<nonControl, coreVars, cpc, cop, cret, parsed_filters, snap,
                   filters_lock, nOps, acct, installed>>

ControlNext ==
    \/ \E h \in Handlers, req \in Requests : ControlRequest(h, req)
    \/ \E h \in Handlers : ControlFail(h)
    \/ \E h \in Handlers : SetAdjustment(h)
    \/ \E h \in Handlers : SetFiltersClear(h)
    \/ \E h \in Handlers : SetFiltersExtend(h)
    \/ \E h \in Handlers : ControlRefreshFlag(h)
    \/ \E h \in Handlers : ControlStatusUpdate(h)
    \/ \E h \in Handlers : SnapshotStatus(h)
    \/ \E h \in Handlers : SnapshotRefresh(h)
    \/ \E h \in Handlers : SnapshotManual(h)
    \/ \E h \in Handlers : SnapshotFilters(h)
    \/ \E h \in Handlers : ControlPublishStatus(h)
    \/ \E h \in Handlers : ControlLogAppend(h)
    \/ \E h \in Handlers : ControlLogPublish(h)
    \/ \E h \in Handlers : ControlReturn(h)
    \/ CycleReadFilters

\* ------------------------------------------------------------ the locks

\* Each routine of the source is the sequence of its lock operations and of
\* the statements that matter between them. "acq" enters a `with` block and
\* runs its first statement, "rel" leaves the block, "stmt" is a further
\* statement inside a block; "sleep" is time.sleep, "io" a crawler, totals
\* or artifact access, "put" the loop of q.put, "wait" q.get of a stream.
Locks ==
    {"manual_lock", "refresh_lock", "refresh_now_lock", "log_lock",
     "status_lock", "event_subscribers_lock", "filters_lock"}
Threads == {"main"} \cup Handlers

Instr(op, lock) == [op |-> op, lock |-> lock]
Do(op) == <<Instr(op, "none")>>
With(lock, inside) == <<Instr("acq", lock)>> \o inside \o <<Instr("rel", lock)>>

\* lines 58-66
PublishEventCode == With("event_subscribers_lock", <<>>) \o Do("put")

\* lines 45-55
GetStatusSnapshotCode ==
    With("status_lock", <<>>) \o With("refresh_lock", <<>>)
    \o With("manual_lock", <<>>) \o With("filters_lock", <<>>)

\* lines 69-75; the status dict is written only when fields are passed
UpdateStatusCode(fields) ==
    (IF fields THEN With("status_lock", <<>>) ELSE <<>>)
    \o GetStatusSnapshotCode \o PublishEventCode

\* lines 89-96: the event is published after log_lock is released
AddLogCode_PublishInside == With("log_lock", PublishEventCode)
AddLogCode == With("log_lock", <<>>) \o PublishEventCode

\* lines 311-324
SetAdjustmentCode ==
    With("manual_lock", <<>>) \o AddLogCode \o UpdateStatusCode(FALSE)
\* lines 327-354: clear, extend and list() inside one block
SetFiltersCode ==
    With("filters_lock", Do("stmt") \o Do("stmt"))
    \o AddLogCode \o UpdateStatusCode(FALSE)
\* lines 357-386: pause and resume take refresh_lock, now refresh_now_lock
SetRefreshCode(lock) == With(lock, <<>>) \o UpdateStatusCode(TRUE) \o AddLogCode
\* lines 389-392
GetLogsCode == With("log_lock", <<>>)
\* lines 400-418, with 78-87: subscribe, snapshot, copy of the log, one wait
\* for an event, unsubscribe
StreamEventsCode ==
    With("event_subscribers_lock", <<>>) \o GetStatusSnapshotCode
    \o With("log_lock", <<>>) \o Do("wait")
    \o With("event_subscribers_lock", <<>>)

HandlerRoutines ==
    {SetAdjustmentCode, SetFiltersCode, SetRefreshCode("refresh_lock"),
     SetRefreshCode("refresh_now_lock"), GetLogsCode, GetStatusSnapshotCode,
     StreamEventsCode}

\* main(), lines 224-230: the paused pass of the loop
MainPausedCode ==
    With("refresh_lock", <<>>) \o With("status_lock", <<>>) \o Do("sleep")
\* lines 224-235: not paused, the trigger flag is read and cleared
MainCheckCode == With("refresh_lock", <<>>) \o With("refresh_now_lock", Do("stmt"))
\* lines 238-253: one full iteration of the countdown
MainCountdownCode ==
    With("refresh_lock", <<>>) \o With("refresh_now_lock", <<>>)
    \o With("status_lock", <<>>) \o Do("sleep")
\* lines 238-245: the iteration that finds the pause flag set
MainCountdownPausedCode == With("refresh_lock", <<>>) \o With("status_lock", <<>>)
\* lines 238-250: the iteration that finds the trigger flag set
MainCountdownNowCode ==
    With("refresh_lock", <<>>) \o With("refresh_now_lock", Do("stmt") \o Do("stmt"))
\* lines 257-296: the cycle; the crawler logs through progress_cb
MainCycleCode ==
    With("status_lock", <<>>) \o AddLogCode
    \o Do("io") \o AddLogCode \o Do("io")
    \o With("filters_lock", <<>>) \o AddLogCode
    \o Do("io")
    \o With("manual_lock", <<>>)
    \o Do("io")
    \o AddLogCode \o AddLogCode \o AddLogCode
    \o UpdateStatusCode(TRUE)

\* what main() can run next: the code, and where the loop stands after it
Segment(code, loc, n) == [code |-> code, mloc |-> loc, li |-> n]
MainSegments(loc, n) ==
    CASE loc = "top" ->
           {Segment(MainPausedCode, "top", 0),
            Segment(MainCheckCode, "cycle", 0),
            Segment(MainCheckCode, "countdown", REFRESH_INTERVAL)}
      [] loc = "countdown" ->
           {Segment(MainCountdownCode, IF n = 1 THEN "cycle" ELSE "countdown", n - 1),
            Segment(MainCountdownPausedCode, "top", 0),
            Segment(MainCountdownNowCode, "cycle", 0)}
      [] OTHER -> {Segment(MainCycleCode, "top", 0)}

\* line 219: main() starts with an add_log
LockInit ==
    /\ holder = [l \in Locks |-> "free"]
    /\ todo = [t \in Threads |-> IF t = "main" THEN AddLogCode ELSE <<>>]
    /\ mloc = "top"
    /\ li = 0

nonLock == <<ctlVars, logVars, busVars, streamVars, filterVars, totalVars,
             controlVars, updateVars>>

LockMainBegin(seg) ==
    /\ todo["main"] = <<>>
    /\ seg \in MainSegments(mloc, li)
    /\ todo' = [todo EXCEPT !["main"] = seg.code]
    /\ mloc' = seg.mloc
    /\ li' = seg.li
    /\ UNCHANGED <<nonLock, holder>>

\* a request arrives at a handler thread
LockHandlerBegin(h, code) ==
    /\ todo[h] = <<>>
    /\ todo' = [todo EXCEPT ![h] = code]
    /\ UNCHANGED <<nonLock, holder, mloc, li>>

\* `with lock:` waits until the lock is free
LockAcquire(t) ==
    /\ todo[t] # <<>>
    /\ Head(todo[t]).op = "acq"
    /\ holder[Head(todo[t]).lock] = "free"
    /\ holder' = [holder EXCEPT ![Head(todo[t]).lock] = t]
    /\ todo' = [todo EXCEPT ![t] = Tail(@)]
    /\ UNCHANGED <<nonLock, mloc, li>>

LockRelease(t) ==
    /\ todo[t] # <<>>
    /\ Head(todo[t]).op = "rel"
    /\ holder' = [holder EXCEPT ![Head(todo[t]).lock] = "free"]
    /\ todo' = [todo EXCEPT ![t] = Tail(@)]
    /\ UNCHANGED <<nonLock, mloc, li>>

LockStep(t) ==
    /\ todo[t] # <<>>
    /\ Head(todo[t]).op \in {"stmt", "put", "io", "sleep", "wait"}
    /\ todo' = [todo EXCEPT ![t] = Tail(@)]
    /\ UNCHANGED <<nonLock, holder, mloc, li>>

LockNext ==
    \/ \E seg \in MainSegments(mloc, li) : LockMainBegin(seg)
    \/ \E h \in Handlers, code \in HandlerRoutines : LockHandlerBegin(h, code)
    \/ \E t \in Threads : LockAcquire(t)
    \/ \E t \in Threads : LockRelease(t)
    \/ \E t \in Threads : LockStep(t)

\* ------------------------------------ concurrent update_status calls

\* Two /refresh requests (pause, resume) run set_refresh on two handler
\* threads while a stream is subscribed; the snapshot's manual_adjustment and
\* filters blocks read what nothing here writes and are left out.

NoUpdateSnapshot == [next_refresh_in |-> None, refresh_paused |-> FALSE, taken |-> 0]

UpdateInit ==
    /\ upc = [h \in Handlers |-> "idle"]
    /\ uop = [h \in Handlers |-> "none"]
    /\ usnap = [h \in Handlers |-> NoUpdateSnapshot]
    /\ usubs = [h \in Handlers |-> {}]
    /\ nSnap = 0
    /\ nUpd = 0

nonUpdate == <<schedVars, handlerVars, hist, logVars, streamVars, filterVars,
               totalVars, controlVars, lockVars>>

\* lines 360-365
UpdateRequest(h, state) ==
    /\ upc[h] = "idle"
    /\ nUpd < MaxUpdates
    /\ nUpd' = nUpd + 1
    /\ uop' = [uop EXCEPT ![h] = state]
    /\ upc' = [upc EXCEPT ![h] = "flag"]
    /\ UNCHANGED <<nonUpdate, sharedVars, busVars, usnap, usubs, nSnap>>

\* lines 366-368, 371-373
UpdateFlag(h) ==
    /\ upc[h] = "flag"
    /\ refresh_paused' = (uop[h] = "pause")
    /\ upc' = [upc EXCEPT ![h] = "write"]
    /\ UNCHANGED <<nonUpdate, refresh_now, status, busVars, uop, usnap, usubs,
                   nSnap, nUpd>>

\* update_status, lines 70-72
UpdateWrite(h) ==
    /\ upc[h] = "write"
    /\ status' = SetNextRefresh(status, RefreshStatusValue(uop[h]))
    /\ upc' = [upc EXCEPT ![h] = "snap_status"]
    /\ UNCHANGED <<nonUpdate, refresh_paused, refresh_now, busVars, uop, usnap,
                   usubs, nSnap, nUpd>>

\* get_status_snapshot, lines 46-47
UpdateSnapStatus(h) ==
    /\ upc[h] = "snap_status"
    /\ usnap' = [usnap EXCEPT ![h].next_refresh_in = status.next_refresh_in]
    /\ upc' = [upc EXCEPT ![h] = "snap_refresh"]
    /\ UNCHANGED <<nonUpdate, sharedVars, busVars, uop, usubs, nSnap, nUpd>>

\* lines 48-55: the snapshot is complete; `taken` numbers the snapshots in
\* the order in which they were completed
UpdateSnapRefresh(h) ==
    /\ upc[h] = "snap_refresh"
    /\ nSnap' = nSnap + 1
    /\ usnap' = [usnap EXCEPT ![h].refresh_paused = refresh_paused,
                              ![h].taken = nSnap']
    /\ upc' = [upc EXCEPT ![h] = "copy"]
    /\ UNCHANGED <<nonUpdate, sharedVars, busVars, uop, usubs, nUpd>>

\* publish_event, lines 60-61
UpdateCopy(h) ==
    /\ upc[h] = "copy"
    /\ usubs' = [usubs EXCEPT ![h] = event_subscribers]
    /\ upc' = [upc EXCEPT ![h] = IF event_subscribers = {} THEN "idle" ELSE "put"]
    /\ UNCHANGED <<nonUpdate, sharedVars, busVars, uop, usnap, nSnap, nUpd>>

\* publish_event, lines 62-66
UpdatePut(h, q) ==
    /\ upc[h] = "put"
    /\ q \in usubs[h]
    /\ queue' = [queue EXCEPT ![q] = QueuePut(@, usnap[h])]
    /\ usubs' = [usubs EXCEPT ![h] = @ \ {q}]
    /\ upc' = [upc EXCEPT ![h] = IF usubs'[h] = {} THEN "idle" ELSE "put"]
    /\ UNCHANGED <<nonUpdate, sharedVars, event_subscribers, sstate, ppc, pev,
                   subscribers, bus, uop, usnap, nSnap, nUpd>>

\* line 403: a stream subscribes
UpdateSubscribe(q) ==
    /\ sstate[q] = "new"
    /\ sstate' = [sstate EXCEPT ![q] = "open"]
    /\ event_subscribers' = event_subscribers \cup {q}
    /\ UNCHANGED <<nonUpdate, sharedVars, queue, ppc, pev, subscribers, bus,
                   updateVars>>

UpdateNext ==
    \/ \E h \in Handlers, state \in {"pause", "resume"} : UpdateRequest(h, state)
    \/ \E h \in Handlers : UpdateFlag(h)
    \/ \E h \in Handlers : UpdateWrite(h)
    \/ \E h \in Handlers : UpdateSnapStatus(h)
    \/ \E h \in Handlers : UpdateSnapRefresh(h)
    \/ \E h \in Handlers : UpdateCopy(h)
    \/ \E h \in Handlers, q \in Streams : UpdatePut(h, q)
    \/ \E q \in Streams : UpdateSubscribe(q)

Init ==
    /\ CtlInit /\ LogInit /\ BusInit /\ StreamInit /\ FilterIdle /\ TotalInit
    /\ ControlInit /\ LockInit /\ UpdateInit

Next == Main \/ \E h \in Handlers : Handler(h)

Spec == Init /\ [][Next]_vars

LogSpec == Init /\ [][LogNext]_vars

BusSpec == Init /\ [][BusNext]_vars

StreamSpec == Init /\ [][StreamNext]_vars

FilterInit ==
    /\ CtlInit /\ LogInit /\ BusInit /\ StreamInit /\ FilterInputs /\ TotalInit
    /\ ControlInit /\ LockInit /\ UpdateInit

FilterSpec == FilterInit /\ [][FilterNext]_vars

TotalSpec == Init /\ [][TotalNext]_vars

ControlSpec == Init /\ [][ControlNext]_vars

LockSpec == Init /\ [][LockNext]_vars

UpdateSpec == Init /\ [][UpdateNext]_vars

\* ------------------------------------------------------------ properties

\* C1: at most one scrape cycle is in progress at any time, and the number
\* of cycles started by consuming the trigger flag never exceeds the number
\* of triggerNow requests issued so far.
C1_NoDoubleFire ==
    /\ hist.running <= 1
    /\ hist.nTrigCycles <= hist.nTrigReq

\* a trigger is pending while a cycle, itself started by a trigger, runs
C1_Witness ==
    /\ hist.running = 1
    /\ refresh_now
    /\ hist.nTrigCycles >= 1

\* C2 (as stated): whenever the scheduler leaves the countdown with a
\* trigger pending and the pause flag clear, it goes to RUNNING_CYCLE and
\* that transition clears the trigger flag.
C2_TriggerClearedOnCycleStart ==
    [][ ( /\ pc \in CountdownPcs
          /\ i > 0
          /\ refresh_now
          /\ ~refresh_paused
          /\ SchedState = "COUNTING_DOWN"
          /\ SchedState' # "COUNTING_DOWN" )
        => (SchedState' = "RUNNING_CYCLE" /\ ~refresh_now') ]_vars

\* C2 (amended): at the countdown's check of the trigger flag (and at the
\* check at the top of the loop) a pending trigger starts the cycle at once,
\* with the flag cleared and no further countdown value published; a pending
\* trigger never waits through more than one sleep of the countdown; the
\* expiry of the countdown starts the cycle and leaves the flag as it is.
C2_Amended ==
    [][ /\ ( (pc = "cd_now" /\ refresh_now /\ pc' # pc)
             => ( /\ pc' = "start"
                  /\ ~refresh_now'
                  /\ do_refresh_now'
                  /\ i' = i
                  /\ status' = status ) )
        /\ ( (pc = "chk_now" /\ refresh_now /\ pc' # pc)
             => (pc' = "start" /\ ~refresh_now' /\ do_refresh_now') )
        /\ ( (pc = "cd_sleep" /\ pc' = "start")
             => refresh_now' = refresh_now )
        /\ hist'.pendingTicks <= 1 ]_vars

\* the cycle starts from inside the countdown, with seconds left uncounted
C2_Witness ==
    /\ pc = "start"
    /\ hist.startCause = "countdown"
    /\ i > 1
    /\ do_refresh_now
    /\ ~refresh_now

\* C3: a readStatus made after a pause request completed and before a
\* resume is requested returns next_refresh_in = None.
C3_PausedReadsNull ==
    \A h \in Handlers :
        (hop[h] = "status" /\ hflag[h]) => hret[h] = None

\* C4: once a resume of a paused scheduler (no trigger pending, no other
\* request in between) has returned, status reports the full interval and
\* the countdown runs from the full interval.
C4_ResumeRestoresInterval ==
    hist.resumeQuiet =>
        /\ status.next_refresh_in = REFRESH_INTERVAL
        /\ (pc \in CountdownPcs => i = REFRESH_INTERVAL)

\* C5 (as stated): no cycle begins while the pause flag is set.
C5_NoCycleWhilePauseFlagSet ==
    [][ (pc # "start" /\ pc' = "start") => ~refresh_paused ]_vars

\* C5 (amended): while the scheduler is PAUSED (it has observed the pause
\* flag set) it starts no cycle and takes no trigger; it leaves PAUSED only
\* for the countdown path and only on observing the pause flag clear.
C5_Amended ==
    [][ SchedState = "PAUSED"
        => ( /\ SchedState' \in {"PAUSED", "COUNTING_DOWN"}
             /\ (refresh_now => refresh_now')
             /\ (SchedState' = "COUNTING_DOWN" => ~refresh_paused) ) ]_vars

\* a trigger requested while PAUSED starts a cycle after the resume
C5_Witness ==
    /\ pc = "start"
    /\ hist.trigWhilePaused
    /\ hist.startCause = "top"
    /\ do_refresh_now

\* C6: the end of every cycle puts the scheduler at the head of a countdown
\* of the full interval, with next_refresh_in = REFRESH_INTERVAL, whatever
\* was requested during the cycle; every countdown entered runs from the
\* full interval.
C6_CycleEndResets ==
    [][ /\ ( (pc = "finish" /\ pc' # pc)
             => ( /\ pc' = "top"
                  /\ SchedState' = "COUNTING_DOWN"
                  /\ status'.next_refresh_in = REFRESH_INTERVAL ) )
        /\ ( (pc = "chk_now" /\ pc' = "cd_pause")
             => i' = REFRESH_INTERVAL ) ]_vars

\* a partially failed cycle has just ended with a pause and a trigger
\* requested meanwhile
C6_Witness ==
    /\ pc = "top"
    /\ hist.lastCycle = "partial"
    /\ refresh_paused
    /\ refresh_now
    /\ status.next_refresh_in = REFRESH_INTERVAL

\* C7: no failure of a cycle step ends the scheduler loop.
C7_SchedulerNeverDies == pc # "dead"
\* C8: the log buffer never holds more than MAX_LOGS entries, and after n
\* appends it holds exactly the last min(n, MAX_LOGS) appended entries in
\* the order of their appends.
C8_LogBounded ==
    LET kept == IF nAppended < MAX_LOGS THEN nAppended ELSE MAX_LOGS
    IN  /\ Len(log_entries) <= MAX_LOGS
        /\ log_entries = [k \in 1..kept |-> nAppended - kept + k]

\* more than MAX_LOGS entries were appended, by threads inside add_log at
\* the same time, and the oldest ones are gone
C8_Witness ==
    /\ nAppended = MAX_LOGS + 2
    /\ Len(log_entries) = MAX_LOGS
    /\ log_entries[1] = 3
    /\ \E t, u \in LogThreads : t # u /\ lpc[t] = "publish" /\ lpc[u] = "entry"

\* C9: when a publish has finished, every queue that was registered when it
\* began and is still registered has been handed the event, whatever the
\* other subscribers did.
C9_EveryRegisteredReceives ==
    \A e \in bus.done :
        \A q \in bus.begin[e] \cap event_subscribers : e \in bus.got[q]

\* a publish finished to two queues, one unsubscribed meanwhile, the other
\* never read and holds this event behind an earlier one
C9_Witness ==
    \E e \in bus.done : \E q, r \in bus.begin[e] :
        /\ q # r
        /\ sstate[r] = "closed"
        /\ q \in event_subscribers
        /\ e \in bus.got[q]
        /\ Len(queue[q]) >= 2

\* C10: no queue ever holds more than a fixed number of undelivered events.
C10_BoundedChannel ==
    \A q \in Subs : Len(queue[q]) <= ChannelBound
\* C11: every subscriber takes events off its queue in the order in which
\* their publishes were invoked (event numbers are given at invocation):
\* what waits in a queue is in increasing order and later than what was
\* taken last.
C11_PublishOrder ==
    \A q \in Subs :
        /\ \A j, k \in DOMAIN queue[q] : j < k => queue[q][j] < queue[q][k]
        /\ (queue[q] # <<>> => bus.taken[q] < Head(queue[q]))

\* C12 (as stated): once a stream is in its event loop, its first frame is
\* the status snapshot and its second frame is the dump of the log buffer,
\* whatever the buffer held.
C12_StatusThenDump ==
    \A q \in Streams :
        spc[q] = "loop" =>
            /\ Len(out[q]) >= 2
            /\ out[q][1].type = "status"
            /\ out[q][2].type = "logs"

\* C12 (amended): the first frame of a stream is the status snapshot; the
\* dump of the copied log buffer follows as the second frame exactly when the
\* copy is not empty (an empty buffer gives no dump frame); every later
\* frame is a log event, a status event or a ping, and a ping is yielded
\* only when no event was waiting in the queue.
C12_Amended ==
    \A q \in Streams :
        LET n == IF logs_copy[q] # <<>> THEN 2 ELSE 1
        IN  /\ (out[q] # <<>> => out[q][1] = Frame("status", "snapshot"))
            /\ (spc[q] = "loop" =>
                  /\ Len(out[q]) >= n
                  /\ (n = 2 => out[q][2] = Frame("logs", logs_copy[q])))
            /\ \A k \in DOMAIN out[q] :
                  /\ (out[q][k].type = "logs" => k = 2 /\ logs_copy[q] # <<>>)
                  /\ (spc[q] = "loop" /\ k > n =>
                        out[q][k].type \in {"log", "status", "ping"})
                  /\ (out[q][k].type = "ping" => out[q][k].data = 0)

\* a stream that dumped a non-empty buffer and then yielded an event and a
\* ping
C12_Witness ==
    \E q \in Streams :
        /\ spc[q] = "loop"
        /\ logs_copy[q] # <<>>
        /\ Len(out[q]) >= 4
        /\ \E k \in 3..Len(out[q]) : out[q][k].type = "ping"
        /\ \E k \in 3..Len(out[q]) : out[q][k].type = "log"

\* the places of the items of a result list, in the order of the list
KeptIds == [k \in DOMAIN filtered_items |-> filtered_items[k].id]
OutIds == [k \in DOMAIN filtered_out |-> filtered_out[k].item.id]
Increasing(ids) == \A j, k \in DOMAIN ids : j < k => ids[j] < ids[k]
Range(f) == {f[k] : k \in DOMAIN f}

\* C13: with no keyword the call returns the item list itself and no
\* rejected item; with any keyword list every item of the list is in exactly
\* one of the two results, nothing else is in them, and both results keep
\* the order of the list.
C13_Partition ==
    fpc = "done" =>
        /\ (filters = <<>> => filtered_items = items /\ filtered_out = <<>>)
        /\ Range(KeptIds) \cup Range(OutIds) = DOMAIN items
        /\ Range(KeptIds) \cap Range(OutIds) = {}
        /\ Increasing(KeptIds) /\ Increasing(OutIds)
        /\ \A k \in DOMAIN filtered_items :
              filtered_items[k] = items[filtered_items[k].id]
        /\ \A k \in DOMAIN filtered_out :
              filtered_out[k].item = items[filtered_out[k].item.id]

\* a call that kept one item and rejected another, and a call without
\* keywords on a non-empty list: both cases are explored
C13_Witness ==
    /\ fpc = "done"
    /\ Len(items) = MaxItems
    /\ filtered_items # <<>>
    /\ filtered_out # <<>>
    /\ OutIds[1] < KeptIds[1]

\* the keywords of the list whose lowercased form occurs in the lowercased
\* title of an item
Hits(item) ==
    {j \in DOMAIN filters : Contains(Lower(TitleOf(item)), Lower(filters[j]))}

\* C14: an item is rejected iff its lowercased title contains the lowercased
\* form of at least one keyword; the keyword reported with it is the
\* matching one of lowest index, in its original casing; an item whose title
\* is empty or missing is kept.
C14_FirstMatchWins ==
    fpc = "done" =>
        /\ \A k \in DOMAIN items :
              (k \in Range(OutIds)) <=> (Hits(items[k]) # {})
        /\ \A k \in DOMAIN filtered_out :
              LET hits == Hits(filtered_out[k].item)
              IN  /\ hits # {}
                  /\ filtered_out[k].term =
                        filters[CHOOSE j \in hits : \A h \in hits : j <= h]
        /\ \A k \in DOMAIN items :
              items[k].title \in {NoTitle, <<>>} => k \in Range(KeptIds)

\* an item that two keywords match, the first of them only because case is
\* ignored, next to an item without title
C14_Witness ==
    /\ fpc = "done"
    /\ \E k \in DOMAIN filtered_out :
          /\ Cardinality(Hits(filtered_out[k].item)) >= 2
          /\ ~Contains(TitleOf(filtered_out[k].item), filtered_out[k].term)
    /\ \E k \in DOMAIN filtered_items : filtered_items[k].title = NoTitle

\* the fetched total of the cycle, when it reads as a number
FetchedNumber == ParseFloat(StripCurrency(total_text))
FetchedParses == total_text \notin {NoTotal, <<>>} /\ FetchedNumber.ok

\* C15: when the fetched total reads as a number once "$" and "," are
\* removed, the display of the cycle is a currency text with two decimals
\* that reads back as that number plus the adjustment the cycle read, and
\* the artifact and last_total carry the same text; "$100.00" with an
\* adjustment of 12.50 gives "$112.50".
C15_NumericTotal ==
    (tpc \in {"write", "status", "done"} /\ FetchedParses) =>
        LET d == total_raised_display
            back == ParseFloat(StripCurrency(d))
        IN  /\ Head(d) = "$"
            /\ d[Len(d) - 2] = "."
            /\ back.ok
            /\ back.value = FetchedNumber.value + adj
            /\ (tpc \in {"status", "done"} => artifact_total = d)
            /\ (tpc = "done" => last_total = d)
            /\ (total_text = <<"$", "1", "0", "0", ".", "0", "0">> /\ adj = 1250
                  => d = <<"$", "1", "1", "2", ".", "5", "0">>)

\* a finished cycle with a grouped total, whose adjustment was changed after
\* the cycle had read it
C15_Witness ==
    /\ tpc = "done"
    /\ total_text = <<"$", "1", ",", "2", "3", "4", ".", "5", "0">>
    /\ adj = 1250
    /\ manual_adjustment = -250
    /\ last_total = <<"$", "1", ",", "2", "4", "7", ".", "0", "0">>

\* C16: when the totals fetch failed (None) or the fetched text does not
\* read as a number, the display of the cycle is the fallback text, the
\* fetched text followed by the signed adjustment, and not a currency total.
C16_FallbackWhenNoNumber ==
    (tpc \in {"write", "status", "done"} /\ ~FetchedParses) =>
        /\ total_raised_display = FormatFallback(total_text, adj)
        /\ Head(total_raised_display) # "$"

\* the five mutating operations, accepted
AcceptedMutation(h) ==
    /\ cpc[h] = "done"
    /\ cret[h] = "ok"
    /\ \/ cop[h].op \in {"adjustment", "filters"}
       \/ cop[h].op = "refresh" /\ cop[h].kind \in {"pause", "resume", "now"}

\* C17: a request that set the adjustment, replaced the filters, paused,
\* resumed or triggered, and was accepted, has appended exactly one log
\* entry and published exactly one status event, whose snapshot was begun
\* after the request's own write.
C17_OneLogOneStatus ==
    \A h \in Handlers :
        AcceptedMutation(h) =>
            /\ acct[h].logs = 1
            /\ acct[h].statuses = 1
            /\ acct[h].mutated /\ acct[h].fresh

\* a triggerNow and a setFilters, both accepted, on the two handlers
C17_Witness ==
    \E h, g \in Handlers :
        /\ AcceptedMutation(h) /\ AcceptedMutation(g)
        /\ cop[h] = Request("refresh", "now", 0, <<>>)
        /\ cop[g].op = "filters"
        /\ refresh_now /\ filters # <<>>

\* the malformed inputs: an amount that is no number, a filter payload whose
\* keywords are neither a list nor a text or whose body is no object, a
\* refresh state that is none of pause, resume, now
Malformed(req) ==
    \/ req.op = "adjustment" /\ req.kind = "text"
    \/ req.op = "filters" /\ req.kind \in {"number", "null", "array"}
    \/ req.op = "refresh" /\ req.kind = "bogus"

\* C18: no step of a request with a malformed input changes the adjustment,
\* the filters, the pause flag, the trigger flag, the status fields or the
\* log buffer or publishes an event, and the request ends in an error.
C18_MalformedRejected ==
    [][\A h \in Handlers :
          (cpc[h] # cpc'[h] /\ cpc[h] \notin {"idle", "done"}
           /\ Malformed(cop[h])) =>
              /\ UNCHANGED coreVars
              /\ (cpc'[h] = "done" => cret'[h] = "error")]_vars

\* C19: no triggerNow request is lost: as long as the trigger flag is set
\* the scheduler loop is alive, so that a cycle that consumes the request can
\* still start.
C19_PendingTriggerHasScheduler == refresh_now => pc # "dead"

\* C20: every keyword list read by get_status_snapshot or by the filter
\* step of a cycle is a list some set_filters call installed completely (at
\* the start the empty list), never the cleared or half-filled list of a
\* replacement in progress.
C20_AtomicReplace ==
    \A r \in DOMAIN fobs : fobs[r].complete

\* a replacement of a non-empty list by another is in progress, the list
\* stands cleared, and both readers have read a non-empty list
C20_Witness ==
    \E h \in Handlers :
        /\ cpc[h] = "f_extend"
        /\ filters = <<>>
        /\ installed # <<>> /\ parsed_filters[h] # <<>>
        /\ fobs["main"].list = installed
        /\ \E g \in Handlers \ {h} : cpc[g] = "snap_filters"

\* C21: only the scheduler writes next_refresh_in: no step of a request
\* handler (pause, resume, triggerNow) changes the status field.
C21_SchedulerSoleWriter ==
    [][status'.next_refresh_in # status.next_refresh_in => hpc' = hpc]_vars

\* the locks a thread holds, and the thread a waiting thread waits for
Held(t) == {l \in Locks : holder[l] = t}
NextOp(t) == IF todo[t] = <<>> THEN "none" ELSE Head(todo[t]).op
Waiting(t) == NextOp(t) = "acq" /\ holder[Head(todo[t]).lock] # "free"
WaitsFor(t) == holder[Head(todo[t]).lock]

\* C22: no thread takes a lock while it holds one; the scheduler holds none
\* while it sleeps or is in crawler, totals or artifact I/O; no set of
\* threads waits for each other; and a thread that waits for a lock waits
\* for a thread that is inside the block and about to leave it, so every
\* request gets its locks whatever the scheduler is doing.
C22_LockDiscipline ==
    /\ \A t \in Threads : Cardinality(Held(t)) <= 1
    /\ \A t \in Threads : NextOp(t) = "acq" => Held(t) = {}
    /\ NextOp("main") \in {"sleep", "io"} => Held("main") = {}
    /\ \A t \in Threads : NextOp(t) \in {"put", "wait"} => Held(t) = {}
    /\ ~ \E C \in SUBSET Threads \ {{}} :
            \A t \in C : Waiting(t) /\ WaitsFor(t) \in C
    /\ \A t \in Threads : Waiting(t) => NextOp(WaitsFor(t)) \in {"stmt", "rel"}

\* the scheduler is in the I/O of a cycle, one handler is inside the
\* filters_lock block of set_filters, the other waits for that lock
C22_Witness ==
    /\ mloc = "top" /\ NextOp("main") = "io"
    /\ \E h, g \in Handlers :
          /\ holder["filters_lock"] = h /\ NextOp(h) = "stmt"
          /\ Waiting(g) /\ WaitsFor(g) = h

\* C23: a stream never gets a status snapshot taken earlier behind one taken
\* later, and once every request has completed, a stream that was sent every
\* status event has as its last one what get_status_snapshot returns now.
C23_NoStaleStatus ==
    \A q \in Streams :
        /\ \A j, k \in DOMAIN queue[q] :
              j < k => queue[q][j].taken < queue[q][k].taken
        /\ ((\A h \in Handlers : upc[h] = "idle") /\ queue[q] # <<>>
               /\ Len(queue[q]) = nSnap =>
              LET last == queue[q][Len(queue[q])]
              IN  /\ last.next_refresh_in = status.next_refresh_in
                  /\ last.refresh_paused = refresh_paused)

\* C24: a stream in its event loop has been given every log entry exactly
\* once: no entry is both in its dump and among its log events (yielded or
\* waiting in its queue), and once no add_log is in progress every entry is
\* in one of the two.
C24_LogEntryExactlyOnce ==
    \A q \in Streams :
        spc[q] = "loop" =>
            \A e \in 1..nAppended :
                LET events == out[q] \o queue[q]
                    inDump == e \in Range(logs_copy[q])
                    asEvent == \E k \in DOMAIN events : events[k] = Frame("log", e)
                IN  /\ ~(inDump /\ asEvent)
                    /\ ((\A p \in Publishers : ppc[p] = "idle") =>
                          inDump \/ asEvent)
====
